---- MODULE Spec2Model ----
(***************************************************************************)
(* Call-graph extraction for Java projects (java-cg).                      *)
(*                                                                         *)
(* The module models                                                       *)
(*   - the per-project pipeline extract_java_project_call_graph:           *)
(*     collect_infos (one step per source file), resolve_with_lsp (session *)
(*     start, one step per call site, cleanup) and build_graph;            *)
(*   - the single-project main, and the multi-project main with its        *)
(*     asyncio tasks and the thread pool the tasks are submitted to.       *)
(*                                                                         *)
(* Source files are given as the captures the tree-sitter queries yield    *)
(* on them (package, class-name identifiers, methods, call sites).         *)
(***************************************************************************)
EXTENDS Integers, Sequences, FiniteSets, TLC

(* ---------------------------------------------------------------------- *)
(* Bounds                                                                  *)
(* ---------------------------------------------------------------------- *)
\* largest number of source files of a project in the single-project runs
MaxFiles == 2
\* largest number of project roots listed in a multi-project run
MaxProjects == 5
\* largest --max-workers value explored
MaxWorkersArg == 2
\* largest 0-based line a definition location may name
MaxLine == 7

(* ---------------------------------------------------------------------- *)
(* Program constants                                                       *)
(* ---------------------------------------------------------------------- *)
\* ThreadPoolExecutor(max_workers=4), the default value of the parameter
\* `executor` of async_extract_java_project_call_graph
DefaultExecutorWorkers == 4

None == "<None>"
IndexError == "<IndexError>"
\* a location without a line (range absent, or range.start without "line")
NoLine == -1
\* a location whose range.start is null: .get on it raises AttributeError
BadRange == -2

(* ---------------------------------------------------------------------- *)
(* Source files, as parsed.                                                *)
(*   path     path of the file relative to the project root                *)
(*   stem     java_path.stem                                               *)
(*   pkg      text of the first @pkg_name capture, None if there is none   *)
(*   classes  class declarations in document order: the @cls_name          *)
(*            identifier's byte range [name_start, name_end] and the       *)
(*            range [decl_start, decl_end] of the class_declaration        *)
(*   methods  @meth captures in document order: start_byte of the          *)
(*            declaration, name, line of the name, last line, call sites   *)
(*   readable FALSE when read_bytes (or decoding a name) raises            *)
(* ---------------------------------------------------------------------- *)
Cls(name, ns, ne, ds, de) ==
    [name |-> name, name_start |-> ns, name_end |-> ne, decl_start |-> ds, decl_end |-> de]

Call(simple, line, column) == [simple |-> simple, line |-> line, column |-> column]

Meth(name, sb, nl, el, calls) ==
    [name |-> name, start_byte |-> sb, name_line |-> nl, end_line |-> el, calls |-> calls]

\* 0: package a;
\* 1: class b {
\* 2:   void c() {
\* 3:     c();
\* 4:   }
\* 5: }
FileSelf ==
    [path |-> "a/b.java", stem |-> "b", pkg |-> "a", readable |-> TRUE,
     classes |-> << Cls("b", 17, 18, 11, 49) >>,
     methods |-> << Meth("c", 23, 2, 4, << Call("c", 3, 4) >>) >>]

\* 0: package p;
\* 1: class Outer {
\* 2:   class Inner {
\* 3:     void m() { n(); }
\* 4:   }
\* 5:   void n() { }
\* 6: }
\* 7: void top() { }
FileOuter ==
    [path |-> "p/Outer.java", stem |-> "Outer", pkg |-> "p", readable |-> TRUE,
     classes |-> << Cls("Outer", 17, 22, 11, 83), Cls("Inner", 33, 38, 27, 66) >>,
     methods |-> << Meth("m", 45, 3, 3, << Call("n", 3, 15) >>),
                    Meth("n", 69, 5, 5, << >>),
                    Meth("top", 84, 7, 7, << >>) >>]

\* 0: void bar() { baz(); }
FileFoo1 ==
    [path |-> "d1/Foo.java", stem |-> "Foo", pkg |-> None, readable |-> TRUE,
     classes |-> << >>,
     methods |-> << Meth("bar", 0, 0, 0, << Call("baz", 0, 13) >>) >>]

\* 0:
\* 1: void bar() {
\* 2: }
FileFoo2 ==
    [path |-> "d2/Foo.java", stem |-> "Foo", pkg |-> None, readable |-> TRUE,
     classes |-> << >>,
     methods |-> << Meth("bar", 1, 1, 2, << >>) >>]

\* 0: class N {
\* 1:   void outer() {
\* 2:     new Object() {
\* 3:       void inner() { }
\* 4:     };
\* 5:   }
\* 6:   void caller() { inner(); }
\* 7: }
FileNest ==
    [path |-> "N.java", stem |-> "N", pkg |-> None, readable |-> TRUE,
     classes |-> << Cls("N", 6, 7, 0, 106) >>,
     methods |-> << Meth("outer", 12, 1, 5, << >>),
                    Meth("inner", 54, 3, 3, << >>),
                    Meth("caller", 86, 6, 6, << Call("inner", 6, 18) >>) >>]

\* a file that cannot be read
\* 0: void lost() { }
FileBad ==
    [path |-> "Bad.java", stem |-> "Bad", pkg |-> None, readable |-> FALSE,
     classes |-> << >>,
     methods |-> << Meth("lost", 0, 0, 0, << >>) >>]

Catalogue == { FileSelf, FileOuter, FileFoo1, FileFoo2, FileNest, FileBad }

\* a file outside every project's source tree (a library source)
ExternalPath == [root |-> "/jdk", rel |-> "Lib.java"]

(* ---------------------------------------------------------------------- *)
(* helpers.py                                                              *)
(* ---------------------------------------------------------------------- *)
\* an absolute path: the directory it is taken relative to, and the rest
AbsPath(root, relpath) == [root |-> root, rel |-> relpath]

\* str(path) of an absolute path
PathStr(path) == path.root \o "/" \o path.rel

\* rel(root, path): path.relative_to(root), str(path) when that raises
rel(root, path) == IF path.root = root THEN path.rel ELSE PathStr(path)

\* pkg_name(tree, query)
pkg_name(file) == file.pkg

\* the nodes CLASS_QUERY.captures(tree.root_node) yields: the pattern has the
\* single capture @cls_name, so every node is a class-name identifier
ClassQueryCaptures(file) ==
    [i \in 1..Len(file.classes) |->
        [kind |-> "identifier", text |-> file.classes[i].name,
         start_byte |-> file.classes[i].name_start,
         end_byte |-> file.classes[i].name_end]]

\* [n for n, c in query.captures(cls) if c == "cls_name"][0] then text():
\* the query matches class_declaration nodes, an identifier contains none
ClsNameText(cls) == IF cls.kind = "class_declaration" THEN cls.text ELSE IndexError

RECURSIVE class_stack(_, _)
class_stack(byte_offset, cls_nodes) ==
    IF cls_nodes = << >> THEN << >>
    ELSE LET cls == Head(cls_nodes)
             rest == class_stack(byte_offset, Tail(cls_nodes))
         IN IF cls.start_byte <= byte_offset /\ byte_offset <= cls.end_byte
            THEN << ClsNameText(cls) >> \o rest
            ELSE rest

RECURSIVE JoinDot(_)
\* ".".join(parts)
JoinDot(parts) ==
    IF Len(parts) = 0 THEN ""
    ELSE IF Len(parts) = 1 THEN parts[1]
    ELSE parts[1] \o "." \o JoinDot(Tail(parts))

(* ---------------------------------------------------------------------- *)
(* call_graph.py: FunctionInfo, CallSite, the dict of infos                *)
(* ---------------------------------------------------------------------- *)
CallSite(target_simple, file_path, line, column) ==
    [target_simple |-> target_simple, file_path |-> file_path,
     line |-> line, column |-> column]

FunctionInfo(fqn, file_path, start_line, end_line, calls, unresolved_sites) ==
    [fqn |-> fqn, file_path |-> file_path, start_line |-> start_line,
     end_line |-> end_line, calls |-> calls, unresolved_sites |-> unresolved_sites]

\* a dict that keeps the value a key was first given
DictPutKeepFirst(infos, info) ==
    IF \E i \in 1..Len(infos) : infos[i].fqn = info.fqn
    THEN infos
    ELSE Append(infos, info)

\* infos[fqn] = info on a dict kept as the sequence of its values in
\* insertion order: an existing key keeps its position, a new key is appended
DictPut(infos, info) ==
    IF \E i \in 1..Len(infos) : infos[i].fqn = info.fqn
    THEN [i \in 1..Len(infos) |-> IF infos[i].fqn = info.fqn THEN info ELSE infos[i]]
    ELSE Append(infos, info)

Fqns(infos) == { infos[i].fqn : i \in 1..Len(infos) }

(* ---------------------------------------------------------------------- *)
(* extract_java_project_call_graph.py: collect_infos                       *)
(* ---------------------------------------------------------------------- *)
\* the fqn with the placeholder class level "<top>" in place of the file stem
MethodFqnTop(file, m) ==
    LET stack == class_stack(m.start_byte, ClassQueryCaptures(file))
        classes == IF stack = << >> THEN << "<top>" >> ELSE stack
        fqn_parts == IF pkg_name(file) # None THEN << pkg_name(file) >> ELSE << >>
    IN JoinDot(fqn_parts \o classes \o << m.name >>)

\* the fqn of one @meth capture
MethodFqn(file, m) ==
    LET stack == class_stack(m.start_byte, ClassQueryCaptures(file))
        classes == IF stack = << >> THEN << file.stem >> ELSE stack
        fqn_parts == IF pkg_name(file) # None THEN << pkg_name(file) >> ELSE << >>
    IN JoinDot(fqn_parts \o classes \o << m.name >>)

\* the FunctionInfo with its call sites kept pending whatever the mode
MethodInfoAlwaysPending(root, file, m, use_lsp) ==
    LET java_path == AbsPath(root, file.path)
        sites == [i \in 1..Len(m.calls) |->
                    CallSite(m.calls[i].simple, java_path,
                             m.calls[i].line, m.calls[i].column)]
    IN FunctionInfo(MethodFqn(file, m), rel(root, java_path),
                    m.name_line, m.end_line, { }, sites)

\* the FunctionInfo built for one @meth capture, its call sites included
MethodInfo(root, file, m, use_lsp) ==
    LET java_path == AbsPath(root, file.path)
        sites == [i \in 1..Len(m.calls) |->
                    CallSite(m.calls[i].simple, java_path,
                             m.calls[i].line, m.calls[i].column)]
    IN FunctionInfo(MethodFqn(file, m), rel(root, java_path),
                    m.name_line, m.end_line,
                    IF use_lsp THEN { } ELSE { m.calls[i].simple : i \in 1..Len(m.calls) },
                    IF use_lsp THEN sites ELSE << >>)

\* src_bytes = java_path.read_bytes() raises
ReadRaises(file) == ~ file.readable

\* does indexing the file raise (the class-name lookup of class_stack)
FileRaises(file) ==
    \E i \in 1..Len(file.methods) :
        LET stack == class_stack(file.methods[i].start_byte, ClassQueryCaptures(file))
        IN \E k \in 1..Len(stack) : stack[k] = IndexError

RECURSIVE CollectMethods(_, _, _, _, _)
CollectMethods(infos, root, file, methods, use_lsp) ==
    IF methods = << >> THEN infos
    ELSE CollectMethods(DictPut(infos, MethodInfo(root, file, Head(methods), use_lsp)),
                        root, file, Tail(methods), use_lsp)

\* one iteration of `for java_path in java_files`
CollectFile(infos, root, file, use_lsp) ==
    CollectMethods(infos, root, file, file.methods, use_lsp)

RECURSIVE CollectFiles(_, _, _, _)
\* collect_infos over the files in the order of java_files
CollectFiles(infos, root, java_files, use_lsp) ==
    IF java_files = << >> THEN infos
    ELSE CollectFiles(CollectFile(infos, root, Head(java_files), use_lsp),
                      root, Tail(java_files), use_lsp)

(* ---------------------------------------------------------------------- *)
(* extract_java_project_call_graph.py: resolve_with_lsp                    *)
(* ---------------------------------------------------------------------- *)
\* def_index.setdefault(abs_path, {})[(start_line, end_line)] = fqn, the
\* dicts kept as one sequence of entries in insertion order
DefIndexPut(def_index, entry) ==
    IF \E i \in 1..Len(def_index) :
          /\ def_index[i].path = entry.path
          /\ def_index[i].s = entry.s
          /\ def_index[i].e = entry.e
    THEN [i \in 1..Len(def_index) |->
            IF /\ def_index[i].path = entry.path
               /\ def_index[i].s = entry.s
               /\ def_index[i].e = entry.e
            THEN entry ELSE def_index[i]]
    ELSE Append(def_index, entry)

RECURSIVE DefIndexFrom(_, _, _)
DefIndexFrom(def_index, infos, root) ==
    IF infos = << >> THEN def_index
    ELSE LET info == Head(infos)
             entry == [path |-> AbsPath(root, info.file_path),
                       s |-> info.start_line, e |-> info.end_line, fqn |-> info.fqn]
         IN DefIndexFrom(DefIndexPut(def_index, entry), Tail(infos), root)

DefIndex(infos, root) == DefIndexFrom(<< >>, infos, root)

\* locate_fqn(abs_path, line0): the first entry of the file, in insertion
\* order, whose range contains the line
locate_fqn(def_index, abs_path, line0) ==
    LET hits == { i \in 1..Len(def_index) :
                    /\ def_index[i].path = abs_path
                    /\ def_index[i].s <= line0
                    /\ line0 <= def_index[i].e }
    IN IF hits = { } THEN None
       ELSE def_index[CHOOSE i \in hits : \A j \in hits : i <= j].fqn

\* answers of lsp.request_definition
Raise == [kind |-> "raise", locs |-> << >>]
Locs(locs) == [kind |-> "locs", locs |-> locs]
Loc(scheme, path, line) == [uri |-> [scheme |-> scheme, path |-> path], line |-> line]

\* the loop body that adds a target only when the location maps to a record
ResolveSiteDropUnmapped(info, cs, answer, def_index) ==
    IF answer.kind = "raise" THEN [raises |-> FALSE, calls |-> info.calls]
    ELSE IF answer.locs = << >> THEN [raises |-> FALSE, calls |-> info.calls]
    ELSE LET loc == answer.locs[1]
         IN IF loc.uri.scheme # "file" THEN [raises |-> FALSE, calls |-> info.calls]
            ELSE IF loc.line = BadRange THEN [raises |-> TRUE, calls |-> info.calls]
            ELSE IF loc.line = NoLine THEN [raises |-> FALSE, calls |-> info.calls]
            ELSE LET fqn == locate_fqn(def_index, loc.uri.path, loc.line)
                 IN [raises |-> FALSE,
                     calls |-> info.calls \cup (IF fqn # None THEN { fqn } ELSE { })]

\* the body of `for cs in info.unresolved_sites` for one call site, given the
\* answer: "raise" when an exception leaves the loop, else the new info.calls
ResolveSite(info, cs, answer, def_index) ==
    IF answer.kind = "raise" THEN [raises |-> FALSE, calls |-> info.calls]
    ELSE IF answer.locs = << >> THEN [raises |-> FALSE, calls |-> info.calls]
    ELSE LET loc == answer.locs[1]
         IN IF loc.uri.scheme # "file" THEN [raises |-> FALSE, calls |-> info.calls]
            ELSE IF loc.line = BadRange THEN [raises |-> TRUE, calls |-> info.calls]
            ELSE IF loc.line = NoLine THEN [raises |-> FALSE, calls |-> info.calls]
            ELSE LET fqn == locate_fqn(def_index, loc.uri.path, loc.line)
                 IN [raises |-> FALSE,
                     calls |-> info.calls \cup
                               { IF fqn # None THEN fqn ELSE cs.target_simple }]

\* for info in infos.values(): info.unresolved_sites.clear()
ClearSites(infos) ==
    [i \in 1..Len(infos) |-> [infos[i] EXCEPT !.unresolved_sites = << >>]]

(* ---------------------------------------------------------------------- *)
(* call_graph.py: build_graph                                              *)
(* ---------------------------------------------------------------------- *)
NoMeta == [file |-> None, start |-> NoLine, end |-> NoLine]
EmptyGraph == [nodes |-> { }, edges |-> { }]

NodeIds(G) == { n.id : n \in G.nodes }

\* add_node that leaves a node that exists as it is
AddNodeKeepExisting(G, id, meta) ==
    IF id \in NodeIds(G) THEN G
    ELSE [G EXCEPT !.nodes = G.nodes \cup { [id |-> id, meta |-> meta] }]

\* G.add_node(id, file=, start=, end=)
AddNode(G, id, meta) ==
    [G EXCEPT !.nodes = { n \in G.nodes : n.id # id } \cup { [id |-> id, meta |-> meta] }]

\* add_edge that records the edge only, adding no node for its ends
AddEdgeNoImplicit(G, u, v) ==
    [nodes |-> G.nodes, edges |-> G.edges \cup { << u, v >> }]

\* G.add_edge(u, v): nodes that are missing are added without attributes
AddEdge(G, u, v) ==
    [nodes |-> G.nodes \cup { [id |-> x, meta |-> NoMeta] : x \in { u, v } \ NodeIds(G) },
     edges |-> G.edges \cup { << u, v >> }]

RECURSIVE AddEdges(_, _, _)
AddEdges(G, u, callees) ==
    IF callees = { } THEN G
    ELSE LET callee == CHOOSE c \in callees : TRUE
         IN AddEdges(AddEdge(G, u, callee), u, callees \ { callee })

RECURSIVE BuildFrom(_, _)
BuildFrom(G, infos) ==
    IF infos = << >> THEN G
    ELSE LET info == Head(infos)
             G1 == AddNode(G, info.fqn,
                           [file |-> info.file_path, start |-> info.start_line,
                            end |-> info.end_line])
         IN BuildFrom(AddEdges(G1, info.fqn, info.calls), Tail(infos))

build_graph(infos) == BuildFrom(EmptyGraph, infos)

(* ---------------------------------------------------------------------- *)
(* State                                                                   *)
(* ---------------------------------------------------------------------- *)
VARIABLES
    mode,         \* "single": extract_java_project_call_graph.main,
                  \* "multi": extract_multi_java_project_call_graphs.main
    projects,     \* the project roots of the run, in the order listed
    use_lsp,      \* args.lsp
    max_workers,  \* args.max_workers
    multilspy,    \* _MULTILSPY_AVAILABLE
    pc,           \* per project: where its task and pipeline stand
    java_files,   \* per project: the files collect_infos has still to parse
    infos,        \* per project: the dict fqn -> FunctionInfo, in insertion order
    session,      \* per project: the language server "none", "running", "stopped"
    starts,       \* per project: how often start_server() was entered
    requests,     \* per project: the definition requests issued so far
    response,     \* per project: the answer to the last request
    graph,        \* per project: the graph build_graph returned, None before
    main_pc,      \* where main stands
    work_queue,   \* work items submitted to the executor and not yet taken
    next_write,   \* index into results of the loop that writes the outputs
    outputs       \* the output directories written: directory name, artifact

inputVars == << mode, projects, use_lsp, max_workers, multilspy >>
pipeVars == << pc, java_files, infos, session, starts, requests, response, graph >>
mainVars == << main_pc, work_queue, next_write, outputs >>
vars == << inputVars, pipeVars, mainVars >>

Projects == DOMAIN projects

Project(root_dir, name, is_dir, files) ==
    [root |-> root_dir \o "/" \o name, name |-> name, is_dir |-> is_dir, files |-> files]

\* the pipeline of p occupies a worker thread (or, single mode, the main thread)
Running(p) == pc[p] \in { "start", "index", "resolve", "lookup", "build" }
RunningSet == { p \in Projects : Running(p) }

\* the call sites of all infos, in the order the two loops of
\* resolve_with_lsp visit them
RECURSIVE SitesFrom(_, _)
SitesFrom(dict, i) ==
    IF i > Len(dict) THEN << >>
    ELSE [k \in 1..Len(dict[i].unresolved_sites) |->
            [i |-> i, cs |-> dict[i].unresolved_sites[k]]] \o SitesFrom(dict, i + 1)

AllSites(dict) == SitesFrom(dict, 1)

\* the answers the language server may give to a request of project p
Responses(p) ==
    LET paths == { AbsPath(projects[p].root, projects[p].files[i].path) :
                       i \in 1..Len(projects[p].files) } \cup { ExternalPath }
    IN { Raise, [kind |-> "interrupt", locs |-> << >>], Locs(<< >>),
         Locs(<< Loc("jdt", ExternalPath, 0) >>) }
       \cup { Locs(<< Loc("file", path, line) >>) :
                 path \in paths, line \in (0..MaxLine) \cup { NoLine, BadRange } }

(* ---------------------------------------------------------------------- *)
(* The pipeline of one project: extract_java_project_call_graph            *)
(* ---------------------------------------------------------------------- *)
\* the entry of the pipeline without the test of the root
CheckRootUnchecked(p) ==
    /\ pc[p] = "start"
    /\ pc' = [pc EXCEPT ![p] = "index"]
    /\ java_files' = [java_files EXCEPT ![p] = projects[p].files]
    /\ UNCHANGED << infos, session, starts, requests, response, graph >>
    /\ UNCHANGED << inputVars, mainVars >>

\* print(project_root); if not project_root.is_dir(): sys.exit(...);
\* java_files = list(project_root.rglob("*.java"))
CheckRoot(p) ==
    /\ pc[p] = "start"
    /\ IF projects[p].is_dir
       THEN /\ pc' = [pc EXCEPT ![p] = "index"]
            /\ java_files' = [java_files EXCEPT ![p] = projects[p].files]
       ELSE /\ pc' = [pc EXCEPT ![p] = "failed"]
            /\ UNCHANGED java_files
    /\ UNCHANGED << infos, session, starts, requests, response, graph >>
    /\ UNCHANGED << inputVars, mainVars >>

\* one iteration of the loop over java_files
IndexFile(p) ==
    /\ pc[p] = "index"
    /\ java_files[p] # << >>
    /\ LET file == Head(java_files[p])
       IN IF ReadRaises(file) \/ FileRaises(file)
          THEN /\ pc' = [pc EXCEPT ![p] = "failed"]
               /\ UNCHANGED << java_files, infos >>
          ELSE /\ infos' = [infos EXCEPT
                               ![p] = CollectFile(infos[p], projects[p].root, file, use_lsp)]
               /\ java_files' = [java_files EXCEPT ![p] = Tail(java_files[p])]
               /\ UNCHANGED pc
    /\ UNCHANGED << session, starts, requests, response, graph >>
    /\ UNCHANGED << inputVars, mainVars >>

\* a loop that is left with its last file unparsed
IndexCompleteEarly(remaining) == Len(remaining) <= 1

\* the loop over java_files is exhausted
IndexComplete(remaining) == remaining = << >>

\* return infos; if use_lsp: resolve_with_lsp(...) else build_graph(...)
CollectDone(p) ==
    /\ pc[p] = "index"
    /\ IndexComplete(java_files[p])
    /\ pc' = [pc EXCEPT ![p] = IF use_lsp THEN "resolve" ELSE "build"]
    /\ UNCHANGED << java_files, infos, session, starts, requests, response, graph >>
    /\ UNCHANGED << inputVars, mainVars >>

\* resolve_with_lsp up to the entry of `with lsp.start_server()`
StartServer(p) ==
    /\ pc[p] = "resolve"
    /\ IF multilspy
       THEN /\ pc' = [pc EXCEPT ![p] = "lookup"]
            /\ session' = [session EXCEPT ![p] = "running"]
            /\ starts' = [starts EXCEPT ![p] = @ + 1]
       ELSE /\ pc' = [pc EXCEPT ![p] = "failed"]
            /\ UNCHANGED << session, starts >>
    /\ UNCHANGED << java_files, infos, requests, response, graph >>
    /\ UNCHANGED << inputVars, mainVars >>

\* a block whose exit leaves the session as it is
ServerAfterWithLeak(state) == state

\* the state of the session when the `with` block is left
ServerAfterWith(state) == "stopped"

\* one call site: the request, the answer, the update of info.calls
Lookup(p) ==
    /\ pc[p] = "lookup"
    /\ Len(requests[p]) < Len(AllSites(infos[p]))
    /\ LET site == AllSites(infos[p])[Len(requests[p]) + 1]
           cs == site.cs
           info == infos[p][site.i]
       IN /\ requests' = [requests EXCEPT ![p] =
                 Append(@, [file |-> rel(projects[p].root, cs.file_path),
                            line |-> cs.line + 1, column |-> cs.column])]
          /\ \E answer \in Responses(p) :
                LET r == IF answer.kind = "interrupt"
                         THEN [raises |-> TRUE, calls |-> info.calls]
                         ELSE ResolveSite(info, cs, answer,
                                          DefIndex(infos[p], projects[p].root))
                IN /\ response' = [response EXCEPT ![p] = answer]
                   /\ IF r.raises
                      THEN /\ pc' = [pc EXCEPT ![p] = "failed"]
                           /\ session' = [session EXCEPT ![p] = ServerAfterWith(@)]
                           /\ UNCHANGED infos
                      ELSE /\ infos' = [infos EXCEPT ![p][site.i].calls = r.calls]
                           /\ UNCHANGED << pc, session >>
    /\ UNCHANGED << java_files, starts, graph >>
    /\ UNCHANGED << inputVars, mainVars >>

\* all sites visited: clear the unresolved sites, leave the `with` block
Cleanup(p) ==
    /\ pc[p] = "lookup"
    /\ Len(requests[p]) = Len(AllSites(infos[p]))
    /\ infos' = [infos EXCEPT ![p] = ClearSites(@)]
    /\ session' = [session EXCEPT ![p] = ServerAfterWith(@)]
    /\ pc' = [pc EXCEPT ![p] = "build"]
    /\ UNCHANGED << java_files, starts, requests, response, graph >>
    /\ UNCHANGED << inputVars, mainVars >>

\* return build_graph(infos)
BuildGraph(p) ==
    /\ pc[p] = "build"
    /\ graph' = [graph EXCEPT ![p] = build_graph(infos[p])]
    /\ pc' = [pc EXCEPT ![p] = "done"]
    /\ UNCHANGED << java_files, infos, session, starts, requests, response >>
    /\ UNCHANGED << inputVars, mainVars >>

(* ---------------------------------------------------------------------- *)
(* call_graph.py: write_graph_output                                       *)
(* ---------------------------------------------------------------------- *)
\* call_graph.json and call_graph.dot of directory dir now hold G
write_graph_output(fs, G, dir) ==
    { o \in fs : o.dir # dir } \cup { [dir |-> dir, graph |-> G] }

(* ---------------------------------------------------------------------- *)
(* extract_java_project_call_graph.py: main                                *)
(* ---------------------------------------------------------------------- *)
\* write_graph_output(G, output) after the pipeline returned; an OSError of
\* the write is not caught
SingleWrite ==
    /\ mode = "single"
    /\ main_pc = "extract"
    /\ pc[1] = "done"
    /\ \E ok \in BOOLEAN :
          IF ok
          THEN /\ outputs' = write_graph_output(outputs, graph[1], "out")
               /\ main_pc' = "exited"
          ELSE /\ main_pc' = "raised"
               /\ UNCHANGED outputs
    /\ UNCHANGED << work_queue, next_write >>
    /\ UNCHANGED << inputVars, pipeVars >>

\* the pipeline left by sys.exit or an exception: main ends with it
SingleAbort ==
    /\ mode = "single"
    /\ main_pc = "extract"
    /\ pc[1] = "failed"
    /\ main_pc' = "raised"
    /\ UNCHANGED << work_queue, next_write, outputs >>
    /\ UNCHANGED << inputVars, pipeVars >>

(* ---------------------------------------------------------------------- *)
(* extract_multi_java_project_call_graphs.py                               *)
(* ---------------------------------------------------------------------- *)
\* the size of the pool the work items are submitted to: `executor`, which
\* main never passes, so its default value
ExecutorWorkers(n) == DefaultExecutorWorkers

\* the loop over the lines of the project list: one task per line
CreateTasks ==
    /\ mode = "multi"
    /\ main_pc = "create"
    /\ pc' = [p \in Projects |-> "created"]
    /\ main_pc' = "gather"
    /\ UNCHANGED << java_files, infos, session, starts, requests, response, graph >>
    /\ UNCHANGED << work_queue, next_write, outputs >>
    /\ UNCHANGED inputVars

\* first step of a task, the tasks in creation order: loop.run_in_executor
TaskSubmit(p) ==
    /\ mode = "multi"
    /\ main_pc = "gather"
    /\ pc[p] = "created"
    /\ \A q \in Projects : q < p => pc[q] # "created"
    /\ pc' = [pc EXCEPT ![p] = "queued"]
    /\ work_queue' = Append(work_queue, p)
    /\ UNCHANGED << java_files, infos, session, starts, requests, response, graph >>
    /\ UNCHANGED << main_pc, next_write, outputs >>
    /\ UNCHANGED inputVars

\* a worker thread of the executor takes the oldest work item
WorkerTake ==
    /\ mode = "multi"
    /\ work_queue # << >>
    /\ Cardinality(RunningSet) < ExecutorWorkers(max_workers)
    /\ pc' = [pc EXCEPT ![Head(work_queue)] = "start"]
    /\ work_queue' = Tail(work_queue)
    /\ UNCHANGED << java_files, infos, session, starts, requests, response, graph >>
    /\ UNCHANGED << main_pc, next_write, outputs >>
    /\ UNCHANGED inputVars

\* results = await asyncio.gather(*tasks), every task has returned
GatherReturn ==
    /\ mode = "multi"
    /\ main_pc = "gather"
    /\ \A p \in Projects : pc[p] = "done"
    /\ main_pc' = "write"
    /\ next_write' = 1
    /\ UNCHANGED << work_queue, outputs >>
    /\ UNCHANGED << inputVars, pipeVars >>

\* await asyncio.gather(*tasks), a task has raised: the exception leaves main,
\* asyncio.run cancels the tasks left, which cancels their queued work items
GatherRaise ==
    /\ mode = "multi"
    /\ main_pc = "gather"
    /\ \A p \in Projects : pc[p] # "created"
    /\ \E p \in Projects : pc[p] = "failed"
    /\ main_pc' = "raised"
    /\ pc' = [p \in Projects |-> IF pc[p] = "queued" THEN "cancelled" ELSE pc[p]]
    /\ work_queue' = << >>
    /\ UNCHANGED << java_files, infos, session, starts, requests, response, graph >>
    /\ UNCHANGED << next_write, outputs >>
    /\ UNCHANGED inputVars

\* one iteration of `for graph, project_root in results`: os.mkdir (an
\* OSError is printed), write_graph_output (an OSError ends the run)
MultiWrite(p) ==
    /\ mode = "multi"
    /\ main_pc = "write"
    /\ next_write = p
    /\ \E ok \in BOOLEAN :
          IF ok
          THEN /\ outputs' = write_graph_output(outputs, graph[p], projects[p].name)
               /\ next_write' = p + 1
               /\ main_pc' = IF p = Len(projects) THEN "exited" ELSE "write"
          ELSE /\ main_pc' = "sysexit"
               /\ UNCHANGED << outputs, next_write >>
    /\ UNCHANGED work_queue
    /\ UNCHANGED << inputVars, pipeVars >>

(* ---------------------------------------------------------------------- *)
(* Initial states                                                          *)
(* ---------------------------------------------------------------------- *)
NoResponse == [kind |-> "none", locs |-> << >>]

\* the java files of a project root, in the order rglob yields them
FileLists ==
    { fl \in UNION { [1..n -> Catalogue] : n \in 0..MaxFiles } :
         \A i, j \in 1..Len(fl) : i # j => fl[i] # fl[j] }

ProjectNames == << "p1", "p2", "p3", "p4", "p5", "p6", "p7", "p8" >>

InitPipes(first_pc) ==
    /\ pc = [p \in Projects |-> first_pc]
    /\ java_files = [p \in Projects |-> << >>]
    /\ infos = [p \in Projects |-> << >>]
    /\ session = [p \in Projects |-> "none"]
    /\ starts = [p \in Projects |-> 0]
    /\ requests = [p \in Projects |-> << >>]
    /\ response = [p \in Projects |-> NoResponse]
    /\ graph = [p \in Projects |-> EmptyGraph]
    /\ work_queue = << >>
    /\ next_write = 0
    /\ outputs = { }

\* a single-project run: any project of at most MaxFiles files
InitSingle ==
    /\ mode = "single"
    /\ \E is_dir \in BOOLEAN, fl \in FileLists :
          projects = << Project("/w", "proj", is_dir, fl) >>
    /\ use_lsp \in BOOLEAN
    /\ multilspy \in BOOLEAN
    /\ max_workers = 0
    /\ main_pc = "extract"
    /\ InitPipes("start")

\* a multi-project run without --lsp: up to MaxProjects roots, at most one
\* of them not a directory; with twin, the second root is another directory
\* with the base name of the first
InitMulti ==
    /\ mode = "multi"
    /\ \E n \in 1..MaxProjects, bad \in 0..MaxProjects, twin \in BOOLEAN :
          /\ bad <= n
          /\ twin => n >= 2
          /\ projects = [p \in 1..n |->
                            IF twin /\ p = 2
                            THEN Project("/v", ProjectNames[1], p # bad, << FileFoo2 >>)
                            ELSE Project("/w", ProjectNames[p], p # bad, << FileFoo1 >>)]
    /\ use_lsp = FALSE
    /\ multilspy \in { TRUE }
    /\ max_workers \in 1..MaxWorkersArg
    /\ main_pc = "create"
    /\ InitPipes("none")

(* ---------------------------------------------------------------------- *)
(* Specifications                                                          *)
(* ---------------------------------------------------------------------- *)
NextSingle ==
    \/ \E p \in Projects : CheckRoot(p)
    \/ \E p \in Projects : IndexFile(p)
    \/ \E p \in Projects : CollectDone(p)
    \/ \E p \in Projects : StartServer(p)
    \/ \E p \in Projects : Lookup(p)
    \/ \E p \in Projects : Cleanup(p)
    \/ \E p \in Projects : BuildGraph(p)
    \/ SingleWrite
    \/ SingleAbort

NextMulti ==
    \/ CreateTasks
    \/ \E p \in Projects : TaskSubmit(p)
    \/ WorkerTake
    \/ \E p \in Projects : CheckRoot(p)
    \/ \E p \in Projects : IndexFile(p)
    \/ \E p \in Projects : CollectDone(p)
    \/ \E p \in Projects : BuildGraph(p)
    \/ GatherReturn
    \/ GatherRaise
    \/ \E p \in Projects : MultiWrite(p)

Init == InitSingle
Next == NextSingle
Spec == Init /\ [][Next]_vars

SpecMulti == InitMulti /\ [][NextMulti]_vars

(* ---------------------------------------------------------------------- *)
(* Properties                                                              *)
(* ---------------------------------------------------------------------- *)
MainEnded == main_pc \in { "exited", "raised", "sysexit" }

\* the output directory of project p holds an artifact
Written(p) ==
    \E o \in outputs : o.dir = (IF mode = "single" THEN "out" ELSE projects[p].name)

\* C1: in a multi-project run, at every moment at most max_workers (the
\* --max-workers value) project pipelines are executing.
C1_AtMostMaxWorkers ==
    mode = "multi" => Cardinality(RunningSet) <= max_workers

\* C2: in a multi-project run, when the pipeline of one project fails, every
\* other listed project's pipeline has run to completion and its output is
\* written by the time the run has ended.
C2_FailureIsolated ==
    ( /\ mode = "multi"
      /\ MainEnded
      /\ RunningSet = { }
      /\ \E q \in Projects : pc[q] = "failed" )
    => \A p \in Projects : pc[p] # "failed" => (pc[p] = "done" /\ Written(p))

\* the call site the last request was issued for
LastSite(p) == AllSites(infos[p])[Len(requests[p])]

\* the last answer names a line of a file: the location the code maps back
AnswerLocated(p) ==
    /\ response[p].kind = "locs"
    /\ response[p].locs # << >>
    /\ response[p].locs[1].uri.scheme = "file"
    /\ response[p].locs[1].line >= 0

\* C3: in semantic mode no call is dropped: once a call site has been
\* looked up, the calls of its function contain the fqn the answer resolves
\* to, or, when the lookup raised, returned no candidate or a candidate
\* that cannot be mapped, the simple name of the call site.
C3_NoCallDropped ==
    \A p \in Projects :
        (pc[p] = "lookup" /\ requests[p] # << >>) =>
            LET site == LastSite(p)
                loc == response[p].locs[1]
                fqn == IF AnswerLocated(p)
                       THEN locate_fqn(DefIndex(infos[p], projects[p].root),
                                       loc.uri.path, loc.line)
                       ELSE None
            IN (IF fqn # None THEN fqn ELSE site.cs.target_simple)
                   \in infos[p][site.i].calls

\* C4: no global completion barrier: whenever the graph of a project is
\* ready and not yet written, main can write it, also while the pipeline of
\* a sibling project is still queued or running.
C4_NoBarrier ==
    \A p \in Projects :
        ( /\ mode = "multi"
          /\ pc[p] = "done"
          /\ ~ Written(p)
          /\ \E q \in Projects \ { p } : Running(q) \/ pc[q] = "queued" )
        => ENABLED MultiWrite(p)

\* the project whose only declaration is a.b.c, which calls itself
SelfProject == mode = "single" /\ projects[1].files = << FileSelf >>

SelfNode == [id |-> "a.b.c", meta |-> [file |-> "a/b.java", start |-> 2, end |-> 4]]

\* the lookup of the call c() was answered with a line of the declaration
SelfResolved ==
    /\ AnswerLocated(1)
    /\ response[1].locs[1].uri.path = AbsPath(projects[1].root, "a/b.java")
    /\ response[1].locs[1].line \in 2..4

\* C5 as stated: for the project whose only declaration is a.b.c calling
\* itself, the graph has, with semantic mode disabled as well as enabled,
\* exactly the node a.b.c and exactly the edge (a.b.c, a.b.c).
C5_SelfLoopAnyMode ==
    (SelfProject /\ pc[1] = "done") =>
        /\ NodeIds(graph[1]) = { "a.b.c" }
        /\ graph[1].edges = { << "a.b.c", "a.b.c" >> }

\* C5 as amended: for that project the graph has exactly one node of a
\* declaration, a.b.c; in semantic mode, when the lookup resolves the call
\* to the declaration, it has no other node and exactly the self-loop
\* (a.b.c, a.b.c); with semantic mode disabled it has the one further node c,
\* without metadata, and exactly the edge (a.b.c, c).
C5_SelfLoop ==
    (SelfProject /\ pc[1] = "done") =>
        /\ { n \in graph[1].nodes : n.meta # NoMeta } = { SelfNode }
        /\ (use_lsp /\ SelfResolved) =>
              /\ graph[1].nodes = { SelfNode }
              /\ graph[1].edges = { << "a.b.c", "a.b.c" >> }
        /\ ~ use_lsp =>
              /\ graph[1].nodes = { SelfNode, [id |-> "c", meta |-> NoMeta] }
              /\ graph[1].edges = { << "a.b.c", "c" >> }

C5_Witness ==
    /\ SelfProject
    /\ pc[1] = "done"
    /\ use_lsp
    /\ SelfResolved
    /\ graph[1].edges = { << "a.b.c", "a.b.c" >> }

\* the classes whose declaration contains the offset, outer to inner
EnclosingClasses(file, offset) ==
    SelectSeq(file.classes, LAMBDA c : c.decl_start <= offset /\ offset <= c.decl_end)

\* package, every enclosing class, simple name, joined by dots
NestedFqn(file, m) ==
    LET encl == EnclosingClasses(file, m.start_byte)
    IN JoinDot((IF file.pkg # None THEN << file.pkg >> ELSE << >>)
               \o [i \in 1..Len(encl) |-> encl[i].name] \o << m.name >>)

\* every file of project p has been indexed
Indexed(p) == pc[p] \in { "resolve", "lookup", "build", "done" }

\* C6: the fqn of a declaration inside classes is the package, then every
\* class whose range contains the declaration's start offset, outer to
\* inner, then the simple name: once a project is indexed, each such
\* declaration is recorded under that fqn (p.Outer.Inner.m for m in Inner
\* in Outer in package p).
C6_NestedClassFqn ==
    \A p \in Projects :
        Indexed(p) =>
            \A k \in 1..Len(projects[p].files) :
                LET file == projects[p].files[k]
                IN \A i \in 1..Len(file.methods) :
                      EnclosingClasses(file, file.methods[i].start_byte) # << >>
                          => NestedFqn(file, file.methods[i]) \in Fqns(infos[p])

\* the records of the file whose range contains the line
Containing(dict, file_path, line0) ==
    { i \in 1..Len(dict) :
        /\ dict[i].file_path = file_path
        /\ dict[i].start_line <= line0
        /\ line0 <= dict[i].end_line }

\* C7: when the line of the returned location lies inside the ranges of
\* several records of the file, the call is resolved to a record with the
\* smallest containing range.
C7_InnermostWins ==
    \A p \in Projects :
        (pc[p] = "lookup" /\ requests[p] # << >> /\ AnswerLocated(p)) =>
            LET site == LastSite(p)
                loc == response[p].locs[1]
                hits == Containing(infos[p], rel(projects[p].root, loc.uri.path), loc.line)
                inner == { i \in hits : \A j \in hits :
                              infos[p][i].end_line - infos[p][i].start_line
                                 <= infos[p][j].end_line - infos[p][j].start_line }
            IN Cardinality(hits) > 1 =>
                  \E i \in inner : infos[p][i].fqn \in infos[p][site.i].calls

\* the orders in which the files of the list can be discovered
Orders(fl) ==
    { o \in [1..Len(fl) -> { fl[i] : i \in 1..Len(fl) }] :
         \A i, j \in 1..Len(fl) : i # j => o[i] # o[j] }

\* C8: the node set, with each node's file/start/end, and the edge set of
\* the graph are those the pipeline yields for every other order in which
\* the same files can be discovered (stated for the runs without resolver).
C8_OrderIndependent ==
    \A p \in Projects :
        (pc[p] = "done" /\ ~ use_lsp) =>
            \A o \in Orders(projects[p].files) :
                graph[p] = build_graph(CollectFiles(<< >>, projects[p].root, o, FALSE))

\* C9: a project's session is started and its lookups are issued only when
\* every source file of the project has been indexed, and its graph is
\* built only after that and, in semantic mode, after the resolution pass
\* has visited every call site and ended the session.
C9_IndexBeforeLookup ==
    \A p \in Projects :
        /\ (session[p] # "none" \/ requests[p] # << >> \/ pc[p] \in { "lookup", "resolve" }) =>
              /\ java_files[p] = << >>
              /\ \A k \in 1..Len(projects[p].files) :
                    \A i \in 1..Len(projects[p].files[k].methods) :
                        MethodFqn(projects[p].files[k], projects[p].files[k].methods[i])
                            \in Fqns(infos[p])
        /\ pc[p] \in { "build", "done" } =>
              /\ java_files[p] = << >>
              /\ Len(infos[p]) = Len(CollectFiles(<< >>, projects[p].root,
                                                  projects[p].files, use_lsp))
              /\ use_lsp => (session[p] = "stopped" /\ AllSites(infos[p]) = << >>)
              /\ ~ use_lsp => (session[p] = "none" /\ requests[p] = << >>)

C9_Witness ==
    \E p \in Projects :
        /\ Len(projects[p].files) = 2
        /\ Len(requests[p]) > 0
        /\ pc[p] = "done"

C11_WriteFailureIsolated ==
    (mode = "multi" /\ main_pc = "sysexit") =>
        \A p \in Projects \ { next_write } : Written(p)

\* the declarations of the files, in the order the files are listed and
\* the methods are captured
RECURSIVE DeclsOf(_)
DeclsOf(fl) ==
    IF fl = << >> THEN << >>
    ELSE [i \in 1..Len(Head(fl).methods) |-> [file |-> Head(fl), m |-> Head(fl).methods[i]]]
         \o DeclsOf(Tail(fl))

Readable(fl) == SelectSeq(fl, LAMBDA f : f.readable)

\* C12: a source file that cannot be read or parsed is skipped: the pipeline
\* of a valid root does not fail while files are left to index, and the
\* graph it returns has a node for every declaration of the readable files.
C12_BadFileSkipped ==
    \A p \in Projects :
        projects[p].is_dir =>
            /\ ~ (pc[p] = "failed" /\ java_files[p] # << >>)
            /\ pc[p] = "done" =>
                  \A k \in 1..Len(DeclsOf(Readable(projects[p].files))) :
                      LET d == DeclsOf(Readable(projects[p].files))[k]
                      IN MethodFqn(d.file, d.m) \in NodeIds(graph[p])

\* the files of project p that have been indexed so far
IndexedFiles(p) ==
    SubSeq(projects[p].files, 1, Len(projects[p].files) - Len(java_files[p]))

\* the declaration observed last among those of the files with the fqn
LastDecl(fl, fqn) ==
    LET decls == DeclsOf(fl)
        k == CHOOSE i \in 1..Len(decls) :
                /\ MethodFqn(decls[i].file, decls[i].m) = fqn
                /\ \A j \in 1..Len(decls) :
                      MethodFqn(decls[j].file, decls[j].m) = fqn => j <= i
    IN decls[k]

SimpleNames(m) == { m.calls[i].simple : i \in 1..Len(m.calls) }

\* C13: the index has exactly one record, and the graph exactly one node,
\* per distinct fqn among the declarations; the file/start/end of the
\* record and of the node, the pending sites, and the outgoing calls (the
\* simple names of its calls, or what they were resolved to) are those of
\* the declaration with that fqn that was observed last.
C13_OneRecordPerFqn ==
    \A p \in Projects :
        (pc[p] \in { "index", "resolve", "lookup", "build", "done" }) =>
            LET fl == IndexedFiles(p)
                decls == DeclsOf(fl)
                dict == infos[p]
            IN /\ Fqns(dict) = { MethodFqn(decls[k].file, decls[k].m) : k \in 1..Len(decls) }
               /\ \A i, j \in 1..Len(dict) : dict[i].fqn = dict[j].fqn => i = j
               /\ \A i \in 1..Len(dict) :
                     LET d == LastDecl(fl, dict[i].fqn)
                     IN /\ dict[i].file_path = d.file.path
                        /\ dict[i].start_line = d.m.name_line
                        /\ dict[i].end_line = d.m.end_line
                        /\ ~ use_lsp => dict[i].calls = SimpleNames(d.m)
                        /\ use_lsp => dict[i].calls \subseteq SimpleNames(d.m) \cup Fqns(dict)
                        /\ (use_lsp /\ pc[p] \in { "index", "resolve", "lookup" }) =>
                              [k \in 1..Len(dict[i].unresolved_sites) |->
                                  dict[i].unresolved_sites[k].target_simple]
                                = [k \in 1..Len(d.m.calls) |-> d.m.calls[k].simple]
                        /\ pc[p] = "done" =>
                              /\ { n \in graph[p].nodes : n.id = dict[i].fqn }
                                   = { [id |-> dict[i].fqn,
                                        meta |-> [file |-> d.file.path,
                                                  start |-> d.m.name_line,
                                                  end |-> d.m.end_line]] }
                              /\ { e[2] : e \in { x \in graph[p].edges : x[1] = dict[i].fqn } }
                                   = dict[i].calls

C13_Witness ==
    \E p \in Projects :
        /\ pc[p] = "done"
        /\ projects[p].files = << FileFoo1, FileFoo2 >>
        /\ Len(infos[p]) = 1
        /\ infos[p][1].file_path = "d2/Foo.java"

\* the declaration of the files that holds the call site of the request
CallerOf(fl, req) ==
    LET decls == DeclsOf(fl)
    IN { MethodFqn(decls[k].file, decls[k].m) : k \in
           { k \in 1..Len(decls) :
               /\ decls[k].file.path = req.file
               /\ \E i \in 1..Len(decls[k].m.calls) :
                     /\ decls[k].m.calls[i].line + 1 = req.line
                     /\ decls[k].m.calls[i].column = req.column } }

SimpleOf(fl, req) ==
    LET decls == DeclsOf(fl)
    IN UNION { { decls[k].m.calls[i].simple : i \in
                   { i \in 1..Len(decls[k].m.calls) :
                       /\ decls[k].file.path = req.file
                       /\ decls[k].m.calls[i].line + 1 = req.line
                       /\ decls[k].m.calls[i].column = req.column } } :
               k \in 1..Len(decls) }

\* the last answer names a line of a file, of the project or not, that no
\* record of that file contains
AnswerUnmapped(p) ==
    /\ AnswerLocated(p)
    /\ Containing(infos[p], rel(projects[p].root, response[p].locs[1].uri.path),
                  response[p].locs[1].line) = { }

C15_InvalidRootFailsFirst ==
    \A p \in Projects :
        ~ projects[p].is_dir =>
            /\ pc[p] \in { "none", "created", "queued", "cancelled", "start", "failed" }
            /\ java_files[p] = << >>
            /\ infos[p] = << >>
            /\ session[p] = "none"
            /\ starts[p] = 0
            /\ requests[p] = << >>
            /\ graph[p] = EmptyGraph
            /\ ~ Written(p)
            /\ mode = "single" => main_pc \in { "extract", "raised" }

C15_Witness ==
    \E p \in Projects :
        /\ ~ projects[p].is_dir
        /\ projects[p].files # << >>
        /\ pc[p] = "failed"
        /\ main_pc = "raised"
        /\ outputs = { }

\* the call targets of all records
Targets(dict) == UNION { dict[i].calls : i \in 1..Len(dict) }

\* C16: the graph built from the records has as edges exactly the pairs
\* (r.fqn, t) for t in r.calls, and as nodes the record fqns, each with its
\* record's file/start/end, and one node without metadata for every call
\* target that is not a record fqn.
C16_BuildGraphExact ==
    \A p \in Projects :
        pc[p] = "done" =>
            LET dict == infos[p]
            IN /\ graph[p].edges =
                    UNION { { << dict[i].fqn, t >> : t \in dict[i].calls } : i \in 1..Len(dict) }
               /\ graph[p].nodes =
                    { [id |-> dict[i].fqn,
                       meta |-> [file |-> dict[i].file_path, start |-> dict[i].start_line,
                                 end |-> dict[i].end_line]] : i \in 1..Len(dict) }
                    \cup { [id |-> t, meta |-> NoMeta] : t \in Targets(dict) \ Fqns(dict) }

C16_Witness ==
    \E p \in Projects :
        /\ pc[p] = "done"
        /\ Targets(infos[p]) \ Fqns(infos[p]) # { }
        /\ Targets(infos[p]) \cap Fqns(infos[p]) # { }
        /\ \E n \in graph[p].nodes : n.meta = NoMeta

\* C17: in a multi-project run that has written all its outputs, the
\* artifact in the output directory of each project holds that project's
\* own graph, also when another root of the run is a distinct directory.
C17_OutputsNotOverwritten ==
    (mode = "multi" /\ main_pc = "exited") =>
        \A p \in Projects :
            \E o \in outputs : o.dir = projects[p].name /\ o.graph = graph[p]

\* package (if any), the file stem, the simple name, joined by dots
StemFqn(file, m) ==
    (IF file.pkg = None THEN "" ELSE file.pkg \o ".") \o file.stem \o "." \o m.name

\* C18: a method without enclosing class gets the file's base name as its
\* single class level: once the project is indexed, bar of Foo.java without
\* package is recorded as Foo.bar, top of Outer.java in package p as
\* p.Outer.top.
C18_FileStemFallback ==
    \A p \in Projects :
        Indexed(p) =>
            /\ \A k \in 1..Len(DeclsOf(projects[p].files)) :
                  LET d == DeclsOf(projects[p].files)[k]
                  IN EnclosingClasses(d.file, d.m.start_byte) = << >>
                        => StemFqn(d.file, d.m) \in Fqns(infos[p])
            /\ (\E k \in 1..Len(projects[p].files) : projects[p].files[k] = FileFoo1)
                  => "Foo.bar" \in Fqns(infos[p])
            /\ (\E k \in 1..Len(projects[p].files) : projects[p].files[k] = FileOuter)
                  => "p.Outer.top" \in Fqns(infos[p])

C18_Witness ==
    \E p \in Projects :
        /\ pc[p] = "done"
        /\ projects[p].files = << FileFoo1, FileOuter >>
        /\ { "Foo.bar", "p.Outer.top" } \subseteq NodeIds(graph[p])

\* C19: with semantic mode disabled no session is started and no lookup is
\* issued, no record ever has a pending site, and every call target of a
\* record, and every edge head of the graph, is the simple name of a call
\* in the body of a declaration with the caller's fqn.
C19_SyntacticMode ==
    ~ use_lsp =>
        \A p \in Projects :
            /\ session[p] = "none"
            /\ starts[p] = 0
            /\ requests[p] = << >>
            /\ pc[p] \notin { "resolve", "lookup" }
            /\ \A i \in 1..Len(infos[p]) :
                  /\ infos[p][i].unresolved_sites = << >>
                  /\ infos[p][i].calls \subseteq
                        SimpleNames(LastDecl(IndexedFiles(p), infos[p][i].fqn).m)
            /\ pc[p] = "done" =>
                  \A e \in graph[p].edges :
                      \E k \in 1..Len(DeclsOf(projects[p].files)) :
                          LET d == DeclsOf(projects[p].files)[k]
                          IN MethodFqn(d.file, d.m) = e[1] /\ e[2] \in SimpleNames(d.m)

C19_Witness ==
    \E p \in Projects :
        /\ ~ use_lsp
        /\ pc[p] = "done"
        /\ graph[p].edges # { }
        /\ session[p] = "none"
====
